---- MODULE Spec2Model ----
(***************************************************************************)
(* A model of packages/wordcount/src/index.js: the settings resolver       *)
(* (loadSettings), the two counting pipelines (countWords and              *)
(* countCharacters) and the public entry point (count), together with the  *)
(* module-level defaultSettings object that loadSettings extends in place. *)
(*                                                                         *)
(* JavaScript values are tagged records:                                   *)
(*   undefined        [tag |-> "undefined"]                                *)
(*   a string         [tag |-> "string", val |-> ...]                      *)
(*   a number         [tag |-> "number", val |-> n]                        *)
(*   an array         [tag |-> "array",  items |-> <<...>>]                *)
(*   an object        [tag |-> "object", props |-> [key |-> value, ...]]   *)
(*   a RegExp         [tag |-> "regexp", atoms |-> <<...>>]                *)
(*   a thrown error   [tag |-> "throw",  val |-> error name]               *)
(* A text is a string whose val is a sequence of characters; a strategy    *)
(* selector is a string whose val is a TLA+ string.                        *)
(***************************************************************************)
EXTENDS Integers, Sequences, FiniteSets, TLC

\* ---------------------------------------------------------------- values

Undefined == [tag |-> "undefined"]

Null == [tag |-> "null"]

Str(s) == [tag |-> "string", val |-> s]

Number(n) == [tag |-> "number", val |-> n]

Array(items) == [tag |-> "array", items |-> items]

Object(props) == [tag |-> "object", props |-> props]

Throw(name) == [tag |-> "throw", val |-> name]

\* obj?.key : undefined when obj is not an object or has no such property.
Get(obj, key) ==
  IF obj.tag = "object" /\ key \in DOMAIN obj.props THEN obj.props[key] ELSE Undefined

\* a ?? b
Coalesce(a, b) == IF a.tag \in {"undefined", "null"} THEN b ELSE a

\* JavaScript truthiness of the values a selector can take.
Truthy(v) ==
  /\ v.tag \notin {"undefined", "null"}
  /\ ~(v.tag = "string" /\ v.val = "")

\* ------------------------------------------------------------ characters

Whitespace == {" ", "\n", "\t"}

Letters == {"a", "g", "u", "n", "d", "e", "f", "i"}

Punctuation == {"<", ">", "/", "[", "]", "&", ";", "-", "!", "(", ")", "|"}

\* One character outside the Basic Multilingual Plane (one scalar value).
Astral == "U+1F600"

Alphabet == Whitespace \cup Letters \cup Punctuation \cup {Astral}

NonSpace == Alphabet \ Whitespace

\* --------------------------------------------------- regular expressions
\* A pattern is a sequence of atoms. An atom matches characters of `set`:
\* exactly one ("one"), at most one ("opt"), one or more, greedy ("plus"),
\* zero or more, lazy ("lazy"); an "alt" atom matches one of the literal
\* strings `alts`, tried in order.

One(S) == [q |-> "one", set |-> S, alts |-> <<>>]

Opt(S) == [q |-> "opt", set |-> S, alts |-> <<>>]

Plus(S) == [q |-> "plus", set |-> S, alts |-> <<>>]

Lazy(S) == [q |-> "lazy", set |-> S, alts |-> <<>>]

Alt(names) == [q |-> "alt", set |-> {}, alts |-> names]

RegExp(atoms) == [tag |-> "regexp", atoms |-> atoms]

\* Whether the literal string lit occurs in t at position i.
RECURSIVE LiteralAt(_, _, _, _)
LiteralAt(lit, j, t, i) ==
  IF j > Len(lit) THEN TRUE
  ELSE /\ i <= Len(t)
       /\ t[i] = lit[j]
       /\ LiteralAt(lit, j + 1, t, i + 1)

\* The length of the longest run of characters of S in t from position i.
RECURSIVE RunLength(_, _, _)
RunLength(S, t, i) ==
  IF i <= Len(t) /\ t[i] \in S THEN 1 + RunLength(S, t, i + 1) ELSE 0

\* The position after the match of atoms[k..] in t at position i that a
\* backtracking matcher prefers, or 0 when there is none.
RECURSIVE MatchAt(_, _, _, _), TryGreedy(_, _, _, _, _), TryLazy(_, _, _, _, _), TryAlts(_, _, _, _, _)
MatchAt(atoms, k, t, i) ==
  IF k > Len(atoms) THEN i
  ELSE LET a == atoms[k]
           here == i <= Len(t) /\ t[i] \in a.set
       IN CASE a.q = "one" ->
                 IF here THEN MatchAt(atoms, k + 1, t, i + 1) ELSE 0
            [] a.q = "opt" ->
                 LET r == IF here THEN MatchAt(atoms, k + 1, t, i + 1) ELSE 0
                 IN IF r # 0 THEN r ELSE MatchAt(atoms, k + 1, t, i)
            [] a.q = "plus" -> TryGreedy(atoms, k, t, i, RunLength(a.set, t, i))
            [] a.q = "lazy" -> TryLazy(atoms, k, t, i, 0)
            [] a.q = "alt" -> TryAlts(atoms, k, t, i, 1)

TryGreedy(atoms, k, t, i, n) ==
  IF n < 1 THEN 0
  ELSE LET r == MatchAt(atoms, k + 1, t, i + n)
       IN IF r # 0 THEN r ELSE TryGreedy(atoms, k, t, i, n - 1)

TryLazy(atoms, k, t, i, n) ==
  LET r == MatchAt(atoms, k + 1, t, i + n)
  IN IF r # 0 THEN r
     ELSE IF i + n <= Len(t) /\ t[i + n] \in atoms[k].set
          THEN TryLazy(atoms, k, t, i, n + 1)
          ELSE 0

TryAlts(atoms, k, t, i, j) ==
  IF j > Len(atoms[k].alts) THEN 0
  ELSE LET lit == atoms[k].alts[j]
           r == IF LiteralAt(lit, 1, t, i)
                THEN MatchAt(atoms, k + 1, t, i + Len(lit))
                ELSE 0
       IN IF r # 0 THEN r ELSE TryAlts(atoms, k, t, i, j + 1)

\* String.prototype.replace with a global pattern and a replacement string:
\* scan from position i, replace every non-overlapping match.
RECURSIVE ReplaceFrom(_, _, _, _)
ReplaceFrom(re, repl, t, i) ==
  IF i > Len(t) + 1 THEN <<>>
  ELSE LET e == MatchAt(re.atoms, 1, t, i)
           rest == IF i <= Len(t) THEN <<t[i]>> ELSE <<>>
       IN CASE e = 0 -> rest \o ReplaceFrom(re, repl, t, i + 1)
            [] e = i -> repl \o rest \o ReplaceFrom(re, repl, t, i + 1)
            [] OTHER -> repl \o ReplaceFrom(re, repl, t, e)

Replace(t, re, repl) == ReplaceFrom(re, repl, t, 1)

\* The number of non-overlapping matches of a global pattern in t.
RECURSIVE MatchesFrom(_, _, _)
MatchesFrom(re, t, i) ==
  IF i > Len(t) + 1 THEN 0
  ELSE LET e == MatchAt(re.atoms, 1, t, i)
       IN CASE e = 0 -> MatchesFrom(re, t, i + 1)
            [] e = i -> 1 + MatchesFrom(re, t, i + 1)
            [] OTHER -> 1 + MatchesFrom(re, t, e)

\* String.prototype.match with a global pattern: the array of matches, or
\* null when there is none.
StringMatch(t, re) ==
  LET n == MatchesFrom(re, t, 1)
  IN IF n = 0 THEN Null ELSE [tag |-> "array", length |-> n]

\* ------------------------------------------------------- pattern library
\* The default patterns of defaultSettings.js, one per pipeline stage and one
\* per counting strategy.

\* An opening or closing tag: "<", an optional "/", a letter, then anything up
\* to the first ">".
HTMLRegExp ==
  RegExp(<<One({"<"}), Opt({"/"}), One(Letters), Lazy(Alphabet \ {">"}), One({">"})>>)

\* A comment: "<!--", anything, "-->".
HTMLcommentRegExp ==
  RegExp(<<One({"<"}), One({"!"}), One({"-"}), One({"-"}), Lazy(Alphabet),
           One({"-"}), One({"-"}), One({">"})>>)

\* A line break or tab, normalised to a space.
spaceRegExp == RegExp(<<One({"\t"})>>)

\* A character reference: "&", one or more non-space characters, ";".
HTMLEntityRegExp == RegExp(<<One({"&"}), One(NonSpace), Lazy(NonSpace), One({";"})>>)

connectorRegExp == RegExp(<<One({"-"})>>)

removeRegExp == RegExp(<<One({"!", "(", ")", "|"})>>)

astralRegExp == RegExp(<<One({Astral})>>)

\* A word: a non-space character followed by white space.
wordsRegExp == RegExp(<<One(NonSpace), Plus(Whitespace)>>)

characters_excluding_spacesRegExp == RegExp(<<One(NonSpace)>>)

characters_including_spacesRegExp == RegExp(<<One(Alphabet \ {"\n", "\t"})>>)

\* The module-level defaultSettings object as it is when the module loads.
InitialDefaults ==
  [ HTMLRegExp |-> HTMLRegExp,
    HTMLcommentRegExp |-> HTMLcommentRegExp,
    spaceRegExp |-> spaceRegExp,
    HTMLEntityRegExp |-> HTMLEntityRegExp,
    connectorRegExp |-> connectorRegExp,
    removeRegExp |-> removeRegExp,
    astralRegExp |-> astralRegExp,
    wordsRegExp |-> wordsRegExp,
    characters_excluding_spacesRegExp |-> characters_excluding_spacesRegExp,
    characters_including_spacesRegExp |-> characters_including_spacesRegExp,
    l10n |-> Undefined,
    shortcodes |-> Undefined,
    shortcodesRegExp |-> Undefined,
    type |-> Undefined ]

\* ------------------------------------------------------- pipeline stages
\* A stage replaces every match of its pattern; without its pattern it is a
\* no-op that hands its input on. A value already thrown is passed on.
StageReplace(settings, key, repl, text) ==
  CASE text.tag = "throw" -> text
    [] settings[key].tag # "regexp" -> text
    [] text.tag # "string" -> Throw("TypeError")
    [] OTHER -> Str(Replace(text.val, settings[key], repl))

stripTags(settings, text) == StageReplace(settings, "HTMLRegExp", <<>>, text)

stripHTMLComments(settings, text) == StageReplace(settings, "HTMLcommentRegExp", <<>>, text)

stripShortcodes(settings, text) == StageReplace(settings, "shortcodesRegExp", <<>>, text)

stripSpaces(settings, text) == StageReplace(settings, "spaceRegExp", <<" ">>, text)

stripHTMLEntities(settings, text) == StageReplace(settings, "HTMLEntityRegExp", <<>>, text)

stripConnectors(settings, text) == StageReplace(settings, "connectorRegExp", <<>>, text)

stripRemovables(settings, text) == StageReplace(settings, "removeRegExp", <<>>, text)

transposeAstralsToCountableChar(settings, text) ==
  StageReplace(settings, "astralRegExp", <<"a">>, text)

transposeHTMLEntitiesToCountableChars(settings, text) ==
  StageReplace(settings, "HTMLEntityRegExp", <<"a">>, text)

Stage(name, settings, text) ==
  CASE name = "stripTags" -> stripTags(settings, text)
    [] name = "stripHTMLComments" -> stripHTMLComments(settings, text)
    [] name = "stripShortcodes" -> stripShortcodes(settings, text)
    [] name = "stripSpaces" -> stripSpaces(settings, text)
    [] name = "stripHTMLEntities" -> stripHTMLEntities(settings, text)
    [] name = "stripConnectors" -> stripConnectors(settings, text)
    [] name = "stripRemovables" -> stripRemovables(settings, text)
    [] name = "transposeAstralsToCountableChar" ->
         transposeAstralsToCountableChar(settings, text)
    [] name = "transposeHTMLEntitiesToCountableChars" ->
         transposeHTMLEntitiesToCountableChars(settings, text)

\* lodash flow: the stages applied left to right, each to the previous one's
\* result, until one throws. The result carries the record of the stages
\* invoked: which, on what, giving what.
RECURSIVE Flow(_, _, _, _)
Flow(stages, settings, text, trace) ==
  IF stages = <<>> THEN [value |-> text, trace |-> trace]
  ELSE LET out == Stage(Head(stages), settings, text)
           step == [stage |-> Head(stages), in |-> text, out |-> out]
       IN IF out.tag = "throw"
          THEN [value |-> out, trace |-> Append(trace, step)]
          ELSE Flow(Tail(stages), settings, out, Append(trace, step))

\* ------------------------------------------------------------ loadSettings

\* lodash extend( object, source ): every property of source is assigned to
\* object itself, a property whose value is undefined included.
Extend(object, source) ==
  IF source.tag # "object" THEN object
  ELSE [k \in DOMAIN object |->
          IF k \in DOMAIN source.props THEN source.props[k] ELSE object[k]]

\* names.join( '|' )
RECURSIVE Join(_, _)
Join(names, sep) ==
  CASE names = <<>> -> <<>>
    [] Len(names) = 1 -> names[1]
    [] OTHER -> names[1] \o sep \o Join(Tail(names), sep)

\* The source text of the shortcode pattern: the names are joined as they are.
ShortcodesSource(names) ==
  <<"\\", "[", "\\", "/", "?", "(", "?", ":">> \o Join(names, <<"|">>)
    \o <<")", "[", "^", "\\", "]", "]", "*", "?", "\\", "]">>

\* Whether a pattern source is one the RegExp constructor accepts, as far as
\* groups, character classes and escapes go: every "(" is closed, no ")" or
\* class is left open, no "\" ends the source.
RECURSIVE SyntaxOk(_, _, _, _)
SyntaxOk(src, i, depth, inClass) ==
  IF i > Len(src) THEN depth = 0 /\ ~inClass
  ELSE CASE src[i] = "\\" -> i < Len(src) /\ SyntaxOk(src, i + 2, depth, inClass)
         [] inClass -> SyntaxOk(src, i + 1, depth, src[i] # "]")
         [] src[i] = "[" -> SyntaxOk(src, i + 1, depth, TRUE)
         [] src[i] = "(" -> SyntaxOk(src, i + 1, depth + 1, FALSE)
         [] src[i] = ")" -> depth > 0 /\ SyntaxOk(src, i + 1, depth - 1, FALSE)
         [] OTHER -> SyntaxOk(src, i + 1, depth, FALSE)

\* new RegExp( '\\[\\/?(?:' + names.join( '|' ) + ')[^\\]]*?\\]', 'g' ): a
\* SyntaxError when the source is malformed; otherwise "[", an optional "/",
\* one of the names, anything up to the first "]".
NewShortcodesRegExp(names) ==
  IF ~SyntaxOk(ShortcodesSource(names), 1, 0, FALSE) THEN Throw("SyntaxError")
  ELSE RegExp(<<One({"["}), Opt({"/"}), Alt(names), Lazy(Alphabet \ {"]"}), One({"]"})>>)

CharacterStrategies ==
  {Str("characters_excluding_spaces"), Str("characters_including_spaces")}

\* ResolveType without the l10n fallback: the selector alone decides.
ResolveTypeSelectorOnly(type, settings) ==
  IF type \in CharacterStrategies THEN type ELSE Str("words")

\* ResolveType that keeps a type merged in from the overrides.
ResolveTypeKeepOverride(type, settings) ==
  LET chosen == CASE Truthy(settings.type) -> settings.type
                  [] Truthy(type) -> type
                  [] OTHER -> Get(settings.l10n, "type")
  IN IF chosen \in CharacterStrategies THEN chosen ELSE Str("words")

\* settings.type = type || settings.l10n?.type, then anything that is not a
\* characters strategy becomes 'words'.
ResolveType(type, settings) ==
  LET chosen == IF Truthy(type) THEN type ELSE Get(settings.l10n, "type")
  IN IF chosen \in CharacterStrategies THEN chosen ELSE Str("words")

\* loadSettings( type, userSettings ) on the defaultSettings object `defaults`.
\* settings is defaults itself, so every assignment lands in defaultSettings;
\* `defaults` is that object when loadSettings ends, `value` what it returns
\* or throws.
loadSettings(defaults, type, userSettings) ==
  LET merged == Extend(defaults, userSettings)
      shortcodes == Coalesce(Get(merged.l10n, "shortcodes"), Array(<<>>))
      listed == [merged EXCEPT !.shortcodes = shortcodes]
      pattern == IF Len(shortcodes.items) > 0
                 THEN NewShortcodesRegExp(shortcodes.items)
                 ELSE listed.shortcodesRegExp
  IN IF pattern.tag = "throw"
     THEN [defaults |-> listed, value |-> pattern]
     ELSE LET compiled == [listed EXCEPT !.shortcodesRegExp = pattern]
              settings == [compiled EXCEPT !.type = ResolveType(type, compiled)]
          IN [defaults |-> settings, value |-> Object(settings)]

\* ------------------------------------------------ countWords, countCharacters

\* The words ordering with the entity and connector stages exchanged.
WordsStagesSwapped ==
  << "stripTags", "stripHTMLComments", "stripShortcodes", "stripSpaces",
     "stripConnectors", "stripHTMLEntities", "stripRemovables" >>

WordsStages ==
  << "stripTags", "stripHTMLComments", "stripShortcodes", "stripSpaces",
     "stripHTMLEntities", "stripConnectors", "stripRemovables" >>

CharactersStages ==
  << "stripTags", "stripHTMLComments", "stripShortcodes",
     "transposeAstralsToCountableChar", "stripSpaces",
     "transposeHTMLEntitiesToCountableChars" >>

\* The characters of String( value ), for the values a text can be.
ToChars(value) ==
  CASE value.tag = "string" -> value.val
    [] value.tag = "undefined" -> <<"u", "n", "d", "e", "f", "i", "n", "e", "d">>

\* text + '\n'
AppendSentinel(text) == Str(ToChars(text) \o <<"\n">>)

\* Counting the pieces text.split( regex ) gives instead of the matches.
MatchLengthBySplit(text, regex) ==
  Number(MatchesFrom(regex, text.val, 1) + 1)

\* text.match( regex )?.length ?? 0
MatchLength(text, regex) ==
  LET m == StringMatch(text.val, regex)
  IN Number(IF m.tag = "null" THEN 0 ELSE m.length)

\* What one counting function does: the value it returns or throws, the
\* stages it invoked, and the text it handed to match (undefined when it
\* never got there).
Counted(flow, regex) ==
  IF flow.value.tag = "throw"
  THEN [returned |-> flow.value, trace |-> flow.trace, matched |-> Undefined]
  ELSE LET text == AppendSentinel(flow.value)
       IN [returned |-> MatchLength(text, regex), trace |-> flow.trace, matched |-> text]

\* countWords without its early return: an undefined pattern reaches match,
\* which then matches the empty pattern.
countWordsUnguarded(text, regex, settings) ==
  Counted(Flow(WordsStages, settings, text, <<>>),
          IF regex.tag = "undefined" THEN RegExp(<<>>) ELSE regex)

countWords(text, regex, settings) ==
  IF regex.tag = "undefined"
  THEN [returned |-> Number(0), trace |-> <<>>, matched |-> Undefined]
  ELSE Counted(Flow(WordsStages, settings, text, <<>>), regex)

countCharacters(text, regex, settings) ==
  IF regex.tag = "undefined"
  THEN [returned |-> Number(0), trace |-> <<>>, matched |-> Undefined]
  ELSE Counted(Flow(CharactersStages, settings, text, <<>>), regex)

\* ------------------------------------------------------------------ count

\* The counting pattern count reads for a resolved strategy.
MatchRegExp(settings) ==
  CASE settings.type = Str("words") -> settings.wordsRegExp
    [] settings.type = Str("characters_including_spaces") ->
         settings.characters_including_spacesRegExp
    [] settings.type = Str("characters_excluding_spaces") ->
         settings.characters_excluding_spacesRegExp
    [] OTHER -> Undefined

\* count( text, type, userSettings ) with defaultSettings being `defaults`:
\* defaultSettings afterwards, and what the call did.
count(defaults, text, type, userSettings) ==
  LET loaded == loadSettings(defaults, type, userSettings)
      settings == loaded.value.props
      done ==
        CASE loaded.value.tag = "throw" ->
               [returned |-> loaded.value, trace |-> <<>>, matched |-> Undefined]
          [] settings.type = Str("words") ->
               countWords(text, settings.wordsRegExp, settings)
          [] settings.type = Str("characters_including_spaces") ->
               countCharacters(text, settings.characters_including_spacesRegExp, settings)
          [] settings.type = Str("characters_excluding_spaces") ->
               countCharacters(text, settings.characters_excluding_spacesRegExp, settings)
          [] OTHER -> [returned |-> Number(0), trace |-> <<>>, matched |-> Undefined]
  IN [defaults |-> loaded.defaults] @@ done

\* ----------------------------------------------------------------- inputs

\* The longest run of count calls followed.
MaxCalls == 2

Texts ==
  { Undefined,
    Str(<<>>),
    Str(<<"a", " ", "g">>),
    Str(<<"<", "a", ">", "[", "g", "]", "a">>),
    Str(<<"<", "[", "a">>) }

Selectors ==
  { Undefined, Str(""), Str("words"), Str("characters_including_spaces"),
    Str("characters_excluding_spaces"), Str("sentences") }

\* A counting pattern that matches the newline.
NewlineRegExp == RegExp(<<One({"\n"})>>)

\* A stage pattern that matches the empty string.
EmptyRegExp == RegExp(<<>>)

Overrides ==
  { Undefined,
    Object([l10n |-> Object([shortcodes |-> Array(<< <<"g">> >>)])]),
    Object([l10n |-> Object([type |-> Str("characters_including_spaces")])]),
    Object([l10n |-> Object([shortcodes |-> Array(<< <<"(">> >>)])]),
    Object([type |-> Str("characters_excluding_spaces")]),
    Object([wordsRegExp |-> Undefined]),
    Object([wordsRegExp |-> NewlineRegExp]),
    Object([characters_including_spacesRegExp |-> Undefined]),
    Object([HTMLRegExp |-> Undefined]),
    Object([astralRegExp |-> EmptyRegExp]) }

\* ------------------------------------------------------------------ state

VARIABLES
  defaultSettings,  \* the module-level defaultSettings object
  calls,            \* how many count calls have been made
  text,             \* the last call's arguments ...
  type,
  userSettings,
  returned,         \* ... the number it returned or the error it threw,
  stagesRun,        \* the pipeline stages it invoked, in order,
  matched           \* and the text its counting pattern was matched against

vars == <<defaultSettings, calls, text, type, userSettings, returned, stagesRun, matched>>

Init ==
  /\ defaultSettings = InitialDefaults
  /\ calls = 0
  /\ text = Undefined
  /\ type = Undefined
  /\ userSettings = Undefined
  /\ returned = Undefined
  /\ stagesRun = <<>>
  /\ matched = Undefined

Count ==
  /\ calls < MaxCalls
  /\ \E t \in Texts, ty \in Selectors, us \in Overrides :
       \E c \in {count(defaultSettings, t, ty, us)} :
         /\ defaultSettings' = c.defaults
         /\ calls' = calls + 1
         /\ text' = t
         /\ type' = ty
         /\ userSettings' = us
         /\ returned' = c.returned
         /\ stagesRun' = c.trace
         /\ matched' = c.matched

Next == Count

Spec == Init /\ [][Next]_vars

\* ----------------------------------------------------------------- claims

\* A count call has been made.
Called == calls > 0

\* The last call's loadSettings returned: defaultSettings is then the very
\* object it returned, the call's resolved settings.
Loaded == Called /\ ~(returned.tag = "throw" /\ returned.val = "SyntaxError")

\* The last call returned the number n.
Returned(n) == returned.tag = "number" /\ returned.val = n

SameOutcome(a, b) == a.tag = b.tag /\ a.val = b.val

StageNames(trace) == [i \in 1..Len(trace) |-> trace[i].stage]

\* The strategy the selector and the merged l10n payload resolve to.
ExpectedStrategy ==
  CASE type \in CharacterStrategies -> type
    [] Truthy(type) -> Str("words")
    [] Get(defaultSettings.l10n, "type") \in CharacterStrategies ->
         Get(defaultSettings.l10n, "type")
    [] OTHER -> Str("words")

\* The stage ordering of a strategy, as the specification lists it.
ExpectedStages(strategy) ==
  IF strategy = Str("words")
  THEN << "stripTags", "stripHTMLComments", "stripShortcodes", "stripSpaces",
          "stripHTMLEntities", "stripConnectors", "stripRemovables" >>
  ELSE << "stripTags", "stripHTMLComments", "stripShortcodes",
          "transposeAstralsToCountableChar", "stripSpaces",
          "transposeHTMLEntitiesToCountableChars" >>

StageKeys ==
  { "HTMLRegExp", "HTMLcommentRegExp", "shortcodesRegExp", "spaceRegExp",
    "HTMLEntityRegExp", "connectorRegExp", "removeRegExp", "astralRegExp" }

\* C1: the default settings object has, after any sequence of count calls,
\* the fields and field values it had before the first call.
C1_DefaultsNeverMutated == defaultSettings = InitialDefaults

\* C2: calls are independent: what a call returns (or throws) is what the
\* same call returns when it is the first one made.
C2_CallsIndependent ==
  Called =>
    SameOutcome(returned, count(InitialDefaults, text, type, userSettings).returned)

\* C3: in the settings loadSettings returns, the shortcode pattern is present
\* if and only if the shortcode-name list resolved for the call is non-empty
\* (said here of the calls that return a number).
C3_PatternIffNames ==
  (Loaded /\ returned.tag = "number") =>
    (defaultSettings.shortcodesRegExp.tag = "regexp"
       <=> Len(defaultSettings.shortcodes.items) > 0)

\* C4 as stated: the resolved type is the selector when the selector is a
\* characters strategy, and 'words' for every other selector (said here of
\* the calls that return a number).
C4_SelectorAloneDecides ==
  (Loaded /\ returned.tag = "number") =>
    defaultSettings.type = (IF type \in CharacterStrategies THEN type ELSE Str("words"))

\* C4 as amended: the resolved type is the selector when the selector is a
\* characters strategy, 'words' for every other non-empty selector, and for an
\* empty or undefined selector the l10n payload's type when that is a
\* characters strategy, 'words' otherwise; it is always one of the three.
C4_SelectorThenL10n ==
  Loaded =>
    /\ defaultSettings.type = ExpectedStrategy
    /\ defaultSettings.type \in CharacterStrategies \cup {Str("words")}

C4_Witness ==
  /\ Loaded
  /\ ~Truthy(type)
  /\ Get(defaultSettings.l10n, "type") = Str("characters_including_spaces")
  /\ defaultSettings.type = Str("characters_including_spaces")
  /\ returned.tag = "number"

\* C5 as stated: a top-level type in the overrides that names a characters
\* strategy is the strategy count uses (said here of the calls that return a
\* number).
C5_OverrideTypeDecides ==
  (Loaded /\ returned.tag = "number" /\ Get(userSettings, "type") \in CharacterStrategies) =>
    defaultSettings.type = Get(userSettings, "type")

\* C5 as amended: a top-level type in the overrides never selects the
\* strategy: loadSettings overwrites it with the strategy resolved from the
\* selector and the l10n payload, and count matches that strategy's pattern
\* after that strategy's pipeline.
C5_OverrideTypeOverwritten ==
  (Loaded /\ Get(userSettings, "type").tag = "string") =>
    /\ defaultSettings.type = ExpectedStrategy
    /\ (returned.tag = "number" /\ MatchRegExp(defaultSettings).tag = "regexp") =>
         /\ StageNames(stagesRun) = ExpectedStages(ExpectedStrategy)
         /\ returned.val = MatchesFrom(MatchRegExp(defaultSettings), matched.val, 1)

C5_Witness ==
  /\ Loaded
  /\ Get(userSettings, "type") = Str("characters_excluding_spaces")
  /\ type = Str("words")
  /\ defaultSettings.type = Str("words")
  /\ text = Str(<<"a", " ", "g">>)
  /\ Returned(2)

\* C6: count never throws and returns an integer >= 0 for every string text,
\* selector and overrides, shortcode names with regex metacharacters included.
C6_NeverThrows ==
  (Called /\ text.tag = "string") => (returned.tag = "number" /\ returned.val >= 0)

SentinelSafe ==
  /\ \/ MatchRegExp(defaultSettings).tag # "regexp"
     \/ MatchesFrom(MatchRegExp(defaultSettings), <<"\n">>, 1) = 0
  /\ \A k \in StageKeys :
       \/ defaultSettings[k].tag # "regexp"
       \/ MatchAt(defaultSettings[k].atoms, 1, <<>>, 1) = 0

C8_MissingTextCountsZero ==
  (Called /\ text.tag = "undefined") => Returned(0)

\* C9: with the counting pattern of the resolved strategy absent, count
\* returns 0 for every text, runs no stage and signals no error; with the
\* pattern present and matching nothing, count returns 0.
C9_AbsentPatternCountsZero ==
  /\ (Loaded /\ MatchRegExp(defaultSettings).tag = "undefined") =>
       (Returned(0) /\ stagesRun = <<>> /\ matched.tag = "undefined")
  /\ (Loaded /\ MatchRegExp(defaultSettings).tag = "regexp" /\ matched.tag = "string"
        /\ MatchesFrom(MatchRegExp(defaultSettings), matched.val, 1) = 0) =>
       Returned(0)

C9_Witness ==
  /\ Loaded
  /\ defaultSettings.type = Str("words")
  /\ defaultSettings.wordsRegExp.tag = "undefined"
  /\ text = Str(<<"a", " ", "g">>)
  /\ stagesRun = <<>>
  /\ Returned(0)

\* C10 as stated: whenever the strategy is resolved, the text has passed
\* through exactly the stages of that strategy's ordering, each once and in
\* that order.
C10_StagesAlwaysRun ==
  (Loaded /\ text.tag = "string") =>
    StageNames(stagesRun) = ExpectedStages(defaultSettings.type)

\* C10 as amended: a call on a text whose resolved strategy has its counting
\* pattern present has run exactly the stages of that strategy's ordering,
\* each once and in that order, the first on the text, each later one on the
\* previous one's output, all with the resolved settings, and has matched the
\* last output followed by a single newline.
C10_StageOrdering ==
  (Loaded /\ text.tag = "string" /\ MatchRegExp(defaultSettings).tag = "regexp") =>
    LET n == Len(stagesRun)
    IN /\ StageNames(stagesRun) = ExpectedStages(defaultSettings.type)
       /\ stagesRun[1].in = text
       /\ \A i \in 1..(n - 1) : stagesRun[i + 1].in = stagesRun[i].out
       /\ \A i \in 1..n :
            stagesRun[i].out = Stage(stagesRun[i].stage, defaultSettings, stagesRun[i].in)
       /\ matched = Str(stagesRun[n].out.val \o <<"\n">>)

C10_Witness ==
  /\ Called
  /\ defaultSettings.type = Str("words")
  /\ returned.tag = "number"
  /\ Len(stagesRun) = 7
  /\ stagesRun[1].in = Str(<<"<", "a", ">", "[", "g", "]", "a">>)
  /\ stagesRun[1].out = Str(<<"[", "g", "]", "a">>)
  /\ stagesRun[3].out = Str(<<"a">>)
  /\ matched = Str(<<"a", "\n">>)

====
